---- MODULE Spec2Model ----
(***************************************************************************)
(* Model of the resilient evaluation pipeline of wikifacts-bench:          *)
(*   - the structured judgment client (rag_client.py: _call, call_llm),    *)
(*   - the checkpointed orchestrator (evaluate.py: read_checkpoint, main). *)
(*                                                                         *)
(* Text is modelled as a sequence of lexical tokens, so that the regular   *)
(* expression of _call and json.loads are computed, not assumed:           *)
(*   "FO"  ```json            "FC"  ```                                    *)
(*   "LB"  {                  "RB"  }               "C"  ,                 *)
(*   "Ayes"   "answer": "yes"       "AYES"  "answer": "YES"                *)
(*   "Amaybe" "answer": "maybe"     "Anum"  "answer": 1                    *)
(*   "R"   "reasoning": "r"         "K"     "meta": 1                      *)
(*   "SO"  "reasoning": "a   (a string literal left open)                  *)
(*   "SC"  b"                (the end of that string literal)              *)
(*   "T"   prose without braces     "NUM" 42                               *)
(*   "STR" the JSON string literal "answer reasoning"                      *)
(* White space between tokens is not represented.                          *)
(*                                                                         *)
(* Prompt templates are sequences of phrase tokens:                        *)
(*   "w"    words of the template     "ph"  a {} placeholder               *)
(*   "unc"  true, false, or uncertain                                      *)
(*   "oiu"  , or 'idk' if uncertain.  "oi"  , or 'idk'                     *)
(*   "yni"  one of 'yes', 'no', 'idk' "yn"  one of 'yes', 'no'             *)
(*   "sqA"  'answer'    "dqA"  "answer"    "mA"  __ans__                   *)
(*   "sqR"  'reasoning' "dqR"  "reasoning" "mR"  __rsp__                   *)
(*   "yes", "no"  the answers of the two few-shot examples                 *)
(* and the upper-case form of a token is its translation.                  *)
(***************************************************************************)
EXTENDS Integers, Sequences, FiniteSets, TLC

\* ------------------------------------------------------------------ bounds
MaxAttempts == 3        \* largest max_attempts explored by SpecCall
NumFacts == 2           \* size of the work set (query ids 1..NumFacts)
MaxRuns == 2            \* number of orchestrator processes started in a row
MaxThreads == 2
MaxFragments == 3      \* fragments of a document given to retrieve
MaxTopK == 3           \* largest top_k given to retrieve
NumArticles == 2       \* article ids a fact can list
MaxListed == 3         \* length of a fact's list of article ids         \* --max_workers

\* ------------------------------------------------------- program constants
DefaultMaxAttempts == 3 \* max_attempts: int = 3, which main never overrides

\* ------------------------------------------------------------ JSON values
None == [kind |-> "none", keys |-> {}, answer |-> "-", reasoning |-> "-"]
JsonError == [kind |-> "err", keys |-> {}, answer |-> "-", reasoning |-> "-"]
EmptyObject == [kind |-> "obj", keys |-> {}, answer |-> "-", reasoning |-> "-"]

AnswerTokens == {"Ayes", "AYES", "Amaybe", "Anum"}
MemberTokens == AnswerTokens \cup {"R", "K"}

\* dict[key] = value for the member a token stands for (a later duplicate wins)
AddMember(obj, t) ==
    IF t \in AnswerTokens
    THEN [obj EXCEPT !.keys = @ \cup {"answer"},
                     !.answer = CASE t = "Ayes" -> "yes"
                                  [] t = "AYES" -> "YES"
                                  [] t = "Amaybe" -> "maybe"
                                  [] OTHER -> "1"]
    ELSE IF t = "R"
    THEN [obj EXCEPT !.keys = @ \cup {"reasoning"}, !.reasoning = "r"]
    ELSE IF t = "SO"
    THEN [obj EXCEPT !.keys = @ \cup {"reasoning"}, !.reasoning = "a}b"]
    ELSE [obj EXCEPT !.keys = @ \cup {"meta"}]

\* smallest index j >= from with s[j] \in toks, 0 when there is none
FirstIndex(s, from, toks) ==
    LET hits == {j \in from..Len(s) : s[j] \in toks}
    IN IF hits = {} THEN 0 ELSE CHOOSE j \in hits : \A k \in hits : j <= k

\* the members of an object, s[i] being the first token after "{" or ","
RECURSIVE ParseMembers(_, _, _, _)
ParseMembers(s, i, obj, afterComma) ==
    IF i > Len(s) THEN JsonError
    ELSE IF s[i] = "RB"
    THEN IF afterComma \/ i # Len(s) THEN JsonError ELSE obj
    ELSE IF s[i] \in MemberTokens \cup {"SO"}
    THEN LET last == IF s[i] = "SO" THEN FirstIndex(s, i + 1, {"SC"}) ELSE i
             next == last + 1
         IN IF last = 0 \/ next > Len(s) THEN JsonError
            ELSE IF s[next] = "C"
            THEN ParseMembers(s, next + 1, AddMember(obj, s[i]), TRUE)
            ELSE IF s[next] = "RB"
            THEN ParseMembers(s, next, AddMember(obj, s[i]), FALSE)
            ELSE JsonError
    ELSE JsonError

\* json.loads: the parsed value, or JsonError for json.JSONDecodeError
JsonLoads(s) ==
    IF s = <<"NUM">>
    THEN [kind |-> "num", keys |-> {}, answer |-> "-", reasoning |-> "-"]
    ELSE IF s = <<"STR">>
    THEN [kind |-> "str", keys |-> {"answer", "reasoning"},
          answer |-> "-", reasoning |-> "-"]
    ELSE IF Len(s) >= 2 /\ s[1] = "LB"
    THEN ParseMembers(s, 2, EmptyObject, FALSE)
    ELSE JsonError

\* ----------------------------------------------- the extraction in _call
\* end of the first alternative started at p: ```json { ...? } ```
FencedEnd(raw, p) ==
    IF p + 1 <= Len(raw) /\ raw[p] = "FO" /\ raw[p + 1] = "LB"
    THEN LET ends == {j \in (p + 2)..(Len(raw) - 1) :
                         raw[j] = "RB" /\ raw[j + 1] \in {"FC", "FO"}}
         IN IF ends = {} THEN 0
            ELSE CHOOSE j \in ends : \A k \in ends : j <= k
    ELSE 0

\* end of the second alternative started at p: { ...? }
BareEnd(raw, p) ==
    IF raw[p] = "LB" THEN FirstIndex(raw, p + 1, {"RB"}) ELSE 0

\* re.search(...) and  m.group(1) or m.group(2) if m else raw
ExtractCandidate(raw) ==
    LET starts == {p \in 1..Len(raw) : FencedEnd(raw, p) # 0 \/ BareEnd(raw, p) # 0}
    IN IF starts = {} THEN raw
       ELSE LET p == CHOOSE q \in starts : \A k \in starts : q <= k
            IN IF FencedEnd(raw, p) # 0
               THEN SubSeq(raw, p + 1, FencedEnd(raw, p))
               ELSE SubSeq(raw, p, BareEnd(raw, p))

\* ------------------------------------------------------ endpoint responses
ValidObject == <<"LB", "Ayes", "C", "R", "RB">>
ProseWrapped == <<"T", "LB", "Ayes", "C", "R", "RB", "T">>
Fenced == <<"FO", "LB", "Ayes", "C", "R", "RB", "FC">>
BraceInString == <<"LB", "Ayes", "C", "SO", "RB", "SC", "RB">>
NonCanonical == <<"LB", "Amaybe", "C", "R", "RB">>
MissingReasoning == <<"LB", "Ayes", "RB">>
MissingAnswer == <<"LB", "R", "RB">>
Garbage == <<"T">>
CutOff == <<"LB", "Ayes", "C">>
Number == <<"NUM">>
StringLiteral == <<"STR">>
TransportError == <<"ERR">>

Raws == {ValidObject, ProseWrapped, Fenced, BraceInString, NonCanonical,
         MissingReasoning, MissingAnswer, Garbage, CutOff, Number, StringLiteral}
Responses == Raws \cup {TransportError}

\* --------------------------------------------------------- _call, one round
InitialMessages == <<"system", "user">>

NewCall == [messages |-> InitialMessages, attempt |-> 1, last_raw |-> <<>>,
            returned |-> FALSE, ret |-> None, ncalls |-> 0, received |-> 0]

\* mutant: a transport failure uses up two attempts
Round_TransportCostsTwo(cs, resp) ==
    IF resp = TransportError
    THEN [cs EXCEPT !.attempt = @ + 2, !.ncalls = @ + 1]
    ELSE LET v == JsonLoads(ExtractCandidate(resp))
             got == [cs EXCEPT !.last_raw = resp, !.ncalls = @ + 1,
                               !.received = @ + 1]
         IN IF v.kind = "num"
            THEN [got EXCEPT !.attempt = @ + 1]
            ELSE IF v.kind # "err" /\ {"answer", "reasoning"} \subseteq v.keys
            THEN [got EXCEPT !.returned = TRUE, !.ret = v]
            ELSE [got EXCEPT !.attempt = @ + 1]

\* mutant: the corrective message is appended after a transport failure too
Round_CorrectiveOnTransport(cs, resp) ==
    IF resp = TransportError
    THEN [cs EXCEPT !.attempt = @ + 1, !.ncalls = @ + 1,
                    !.messages = Append(@, "corrective")]
    ELSE LET v == JsonLoads(ExtractCandidate(resp))
             got == [cs EXCEPT !.last_raw = resp, !.ncalls = @ + 1,
                               !.received = @ + 1]
         IN IF v.kind = "num"
            THEN [got EXCEPT !.attempt = @ + 1]
            ELSE IF v.kind # "err" /\ {"answer", "reasoning"} \subseteq v.keys
            THEN [got EXCEPT !.returned = TRUE, !.ret = v]
            ELSE [got EXCEPT !.attempt = @ + 1,
                             !.messages = Append(@, "corrective")]

\* one iteration of the for loop of _call, the endpoint answering resp
Round(cs, resp) ==
    IF resp = TransportError
    THEN [cs EXCEPT !.attempt = @ + 1, !.ncalls = @ + 1]
    ELSE LET v == JsonLoads(ExtractCandidate(resp))
             got == [cs EXCEPT !.last_raw = resp, !.ncalls = @ + 1,
                               !.received = @ + 1]
         IN IF v.kind = "num"
            THEN [got EXCEPT !.attempt = @ + 1]
            ELSE IF v.kind # "err" /\ {"answer", "reasoning"} \subseteq v.keys
            THEN [got EXCEPT !.returned = TRUE, !.ret = v]
            ELSE [got EXCEPT !.attempt = @ + 1,
                             !.messages = Append(@, "corrective")]

\* the statements after the loop: json.loads(last_raw), None on any exception
AfterLoop(cs) ==
    LET v == JsonLoads(cs.last_raw)
    IN [cs EXCEPT !.returned = TRUE, !.ret = IF v.kind = "err" THEN None ELSE v]

\* _call from the current round on, the endpoint answering scen[attempt]
RECURSIVE RunCall(_, _, _)
RunCall(cs, scen, maxAtt) ==
    IF cs.returned THEN cs
    ELSE IF cs.attempt > maxAtt THEN AfterLoop(cs)
    ELSE RunCall(Round(cs, scen[cs.attempt]), scen, maxAtt)

\* what call_llm returns for the value _call returned: (None, None) or
\* (user_prompt, json.dumps(resp_json)); dumps/loads of a value that came
\* out of json.loads gives the same value back, so the value stands for both
CallLlmReturn(ret) ==
    IF ret = None THEN [prompt |-> "None", response |-> None]
    ELSE [prompt |-> "user_prompt", response |-> ret]

\* ------------------------------------------------------------ checkpoint
Queries == 1..NumFacts          \* the work set: ids of load_queries
OtherId == 0                    \* an id of an earlier, different work set
Ids == Queries \cup {OtherId}

NullSentinel == [kind |-> "null", answer |-> "-", reasoning |-> "-"]
Judgment(a, r) == [kind |-> "rec", answer |-> a, reasoning |-> r]

EmptyMap == [i \in {} |-> NullSentinel]
\* mutant: the assignment drops every other entry
Put_Fresh(m, k, v) == [i \in {k} |-> v]

Put(m, k, v) == [i \in DOMAIN m \cup {k} |-> IF i = k THEN v ELSE m[i]]

Missing == [state |-> "missing", content |-> EmptyMap]
Truncated == [state |-> "empty", content |-> EmptyMap]
Partial == [state |-> "partial", content |-> EmptyMap]
Full(m) == [state |-> "full", content |-> m]
\* bytes that are not UTF-8 text (a torn or foreign-encoded file)
Undecodable == [state |-> "undecodable", content |-> EmptyMap]

\* checkpoint files a first run can find: none, or one left by earlier runs
InitFiles == {Missing,
              Full(Put(Put(EmptyMap, OtherId, Judgment("no", "r")), 1, NullSentinel))}

\* mutant: the stored mapping is never loaded
read_checkpoint_Ignored(f) == EmptyMap

read_checkpoint(f) ==
    IF f.state = "full" THEN f.content ELSE EmptyMap

\* json.load(f) raises an exception that is not json.JSONDecodeError:
\* f.read() raises UnicodeDecodeError, which read_checkpoint does not catch
read_checkpoint_raises(f) == f.state = "undecodable"

\* mutant: ids that hold the null sentinel are retried
Remaining_RetryNull(preds) ==
    {q \in Queries : q \notin DOMAIN preds \/ preds[q].kind = "null"}

\* remaining = [qid for qid in queries if qid not in predictions]
Remaining(preds) == {q \in Queries : q \notin DOMAIN preds}

\* str.lower() on the answers of the model
Lower(a) == IF a = "YES" THEN "yes" ELSE a

\* the endpoint behaviours the orchestrator runs are explored with
OrchResponses == {ValidObject, NonCanonical, Garbage, MissingAnswer, TransportError}

VARIABLES
    max_attempts,   \* SimpleRagClient.max_attempts
    call,           \* the locals of one _call: messages, attempt, last_raw
    clientpc,       \* "call": inside _call, "done": call_llm has returned
    llm_ret,        \* what call_llm returned
    resps,          \* history: the endpoint's answers to this call_llm
    failed_facts,   \* the failure log: number of lines per fact
    logged,         \* the facts whose lines in the two logs are counted
    file,           \* the checkpoint file on disk
    predictions,    \* main: the in-memory checkpoint mapping
    remaining,      \* main: the ids submitted in this run
    max_workers,    \* max_workers of the executor of the process (0: none)
    wstate,         \* per id: none, queued, running, done, handled
    wres,           \* per id: what llm_worker returned (the future's result)
    mainpc,         \* main: idle (no process), loop, w_open, w_dump, outlog,
                    \*       summary, dead (main raised, workers draining)
    cur,            \* main: the qid of the loop iteration in progress (0: none)
    outputs,        \* the output log: number of lines per fact
    run,            \* number of processes started so far
    everStored,     \* history: ids some completed checkpoint write stored
    prevDone,       \* history: the previous process reached its end
    killed,         \* history: the previous process was killed
    writes,         \* history: checkpoint writes completed by the latest run
    cfg,            \* the client options: mode, allow_idk, translator, use_few_shots
    cache,          \* SimpleRagClient._translations_cache
    builder,        \* per thread: the locals of call_llm while it builds messages
    retr,           \* one RelevantRetriever.retrieve call: arguments and outcome
    ctx             \* one item of a run with contexts: options, ids, contexts

clientVars == <<max_attempts, call, clientpc, llm_ret, resps>>
orchVars == <<file, predictions, remaining, max_workers, wstate, wres, mainpc, cur,
              outputs, run, everStored, prevDone, killed, writes>>
promptVars == <<cfg, cache, builder>>
sideVars == <<promptVars, retr, ctx>>
vars == <<clientVars, failed_facts, logged, orchVars, sideVars>>

NoResult == [ret |-> None, netfail |-> FALSE]

\* ----------------------------------------------- prompts and translation
Threads == 1..MaxThreads        \* the pool threads that run call_llm

FactSys == <<"w", "unc", "w", "oiu", "w", "sqA", "yni", "sqR", "w", "sqR", "w">>
ContextSys == <<"w", "w", "oiu", "w", "sqA", "yni", "sqR", "w", "sqR", "w">>
FactUser == <<"w", "ph", "w">>
ContextUser == <<"w", "ph", "w", "ph">>
Ex1Assistant == <<"dqA", "yes", "dqR", "w">>
Ex2Assistant == <<"dqA", "no", "dqR", "w">>

Modes == {"fact", "linked", "relevant"}
template_sys(mode) == IF mode = "fact" THEN FactSys ELSE ContextSys
template_user(mode) == IF mode = "fact" THEN FactUser ELSE ContextUser

\* text.replace(old, new) for a phrase that is one token; new = "" drops it
Replace(text, old, new) ==
    LET Keep(t) == t # old
    IN IF new = "" THEN SelectSeq(text, Keep)
       ELSE [i \in 1..Len(text) |-> IF text[i] = old THEN new ELSE text[i]]

\* _strip_idk: the re.sub and the two replace calls, in their order
_strip_idk(text) ==
    Replace(Replace(Replace(text, "oiu", ""), "yni", "yn"), "oi", "")

\* the four replace calls over mask_map.items() before the translation
Mask(text) ==
    Replace(Replace(Replace(Replace(text, "sqA", "mA"), "dqA", "mA"),
                    "sqR", "mR"), "dqR", "mR")

\* the four replace calls after it: the single-quoted names come first in
\* mask_map, so they take every mask and the double-quoted find none left
Unmask(text) ==
    Replace(Replace(Replace(Replace(text, "mA", "sqA"), "mA", "dqA"),
                    "mR", "sqR"), "mR", "dqR")

\* translators: "identity" returns its input, "word" translates every phrase
\* and leaves the masks and the placeholders as they are
Translators == {"identity", "word"}
TranslateToken(t) ==
    CASE t = "w" -> "W" [] t = "unc" -> "UNC" [] t = "oiu" -> "OIU"
      [] t = "oi" -> "OI" [] t = "yni" -> "YNI" [] t = "yn" -> "YN"
      [] t = "yes" -> "YES" [] t = "no" -> "NO" [] OTHER -> t
translate(kind, text) ==
    IF kind = "identity" THEN text
    ELSE [i \in 1..Len(text) |-> TranslateToken(text[i])]

\* what _translate_cached computes on a cache miss; ok: translate returned
Translated(kind, text, ok) ==
    IF ok THEN Unmask(translate(kind, Mask(text))) ELSE text

NoText == <<>>
EmptyCache == [t \in {} |-> NoText]

\* ------------------------------------------------ retrieval and contexts
\* the result of a call: a value, or the exception it raised
Ok(v) == [exc |-> "none", value |-> v]
Raise(e) == [exc |-> e, value |-> <<>>]

\* what a RelevantRetriever has after __init__, and what its class defines
RetrieverAttrs == {"device", "model", "tokenizer", "maxlen", "batch_size", "pooling"}
RetrieverMethods == {"load_model", "split_sentence", "split_abstract", "split",
                     "get_embeddings", "retrieve"}
Has(name) == name \in RetrieverAttrs \cup RetrieverMethods

\* a document is the sequence of its fragments; a fragment is known by its
\* position and by its similarity to the query
SimLevels == 1..2
Documents == UNION {[1..n -> SimLevels] : n \in 0..MaxFragments}

\* no retrieve call
IdleRetriever == [pc |-> "idle", pooling |-> "mean", splitter |-> "sentence",
                  doc |-> <<>>, top_k |-> 1, exc |-> "none", result |-> <<>>,
                  encoder_calls |-> 0]

\* split: reads self.splitter, then calls _split_sentences or _split_paragraphs
split(r) ==
    IF ~Has("splitter") THEN Raise("AttributeError")
    ELSE IF r.splitter = "sentence" /\ ~Has("_split_sentences")
         THEN Raise("AttributeError")
    ELSE IF r.splitter # "sentence" /\ ~Has("_split_paragraphs")
         THEN Raise("AttributeError")
    ELSE Ok([i \in 1..Len(r.doc) |-> i])

\* get_embeddings: one tokenizer call and one model call per batch
get_embeddings(r, texts) ==
    IF texts = <<>> THEN Raise("ValueError")
    ELSE IF ~Has("max_len") THEN Raise("AttributeError")
    ELSE IF r.pooling = "average"
         THEN IF Has("_average_pool") THEN Ok(texts) ELSE Raise("AttributeError")
    ELSE IF r.pooling = "cls"
         THEN IF Has("_cls_pool") THEN Ok(texts) ELSE Raise("AttributeError")
    ELSE Raise("ValueError")

\* sims.argsort(): an order of the positions by ascending similarity; the
\* default sort kind promises no order among equal values
Argsorts(sims) ==
    {p \in [1..Len(sims) -> 1..Len(sims)] :
        /\ \A i, j \in 1..Len(sims) : i # j => p[i] # p[j]
        /\ \A i \in 1..Len(sims) - 1 : sims[p[i]] <= sims[p[i + 1]]}
Reversed(p) == [i \in 1..Len(p) |-> p[Len(p) + 1 - i]]
Take(p, k) == SubSeq(p, 1, IF k < Len(p) THEN k ELSE Len(p))

\* retrieve: every outcome the call can have, with the encoder calls made
RetrieveOutcomes(r) ==
    LET fragments == split(r)
        query_emb == get_embeddings(r, <<0>>)
        frag_embs == get_embeddings(r, fragments.value)
    IN IF fragments.exc # "none" THEN {[out |-> fragments, calls |-> 0]}
       ELSE IF fragments.value = <<>> THEN {[out |-> Ok(<<>>), calls |-> 0]}
       ELSE IF query_emb.exc # "none" THEN {[out |-> query_emb, calls |-> 0]}
       ELSE IF frag_embs.exc # "none" THEN {[out |-> frag_embs, calls |-> 1]}
       ELSE {[out |-> Ok(Take(Reversed(p), r.top_k)), calls |-> 2] :
                p \in Argsorts(r.doc)}

\* a fact lists article ids; the corpus holds some of them. The abstract of
\* an article is written as its id.
ArticleIds == 1..NumArticles
Listings == UNION {[1..n -> ArticleIds] : n \in 0..MaxListed}
ContextModes == {"linked", "relevant"}

\* resolve_context: the loop over article_ids
RECURSIVE resolve_context(_, _)
resolve_context(article_ids, corpus) ==
    IF article_ids = <<>> THEN <<>>
    ELSE (IF Head(article_ids) \in corpus THEN <<Head(article_ids)>> ELSE <<>>)
         \o resolve_context(Tail(article_ids), corpus)

\* no run
IdleContext == [pc |-> "idle", mode |-> "linked", use_fragment_retriever |-> FALSE,
                listed |-> <<>>, corpus |-> {}, contexts |-> <<>>, exc |-> "none"]

\* a thread outside call_llm
IdleBuilder == [pc |-> "idle", stage |-> 0, texts |-> <<>>, cur |-> NoText,
                tmp |-> NoText, src |-> NoText, out |-> NoText]

\* the values of sideVars in the specifications that do not follow them
SideIdle ==
    /\ cfg = [mode |-> "fact", allow_idk |-> TRUE, translator |-> "none",
              use_few_shots |-> FALSE]
    /\ cache = EmptyCache
    /\ builder = [t \in Threads |-> IdleBuilder]
    /\ retr = IdleRetriever
    /\ ctx = IdleContext

ClientInit(m) ==
    /\ max_attempts = m
    /\ call = NewCall
    /\ clientpc = "call"
    /\ llm_ret = [prompt |-> "-", response |-> None]
    /\ resps = <<>>

OrchInit(f) ==
    /\ file = f
    /\ predictions = EmptyMap
    /\ remaining = {}
    /\ max_workers = 0
    /\ wstate = [q \in Queries |-> "none"]
    /\ wres = [q \in Queries |-> NoResult]
    /\ mainpc = "idle"
    /\ cur = 0
    /\ outputs = [q \in Queries |-> 0]
    /\ run = 0
    /\ everStored = DOMAIN f.content \cap Queries
    /\ prevDone = FALSE
    /\ killed = FALSE
    /\ writes = 0

\* ------------------------------------------- SpecCall: one call_llm(fact 1)
\* one round of the loop of _call; resp is what the endpoint does
CallRound(resp) ==
    /\ clientpc = "call"
    /\ ~call.returned
    /\ call.attempt <= max_attempts
    /\ call' = Round(call, resp)
    /\ resps' = Append(resps, resp)
    /\ UNCHANGED <<sideVars, max_attempts, clientpc, llm_ret, failed_facts, logged, orchVars>>

\* the loop ran out of attempts
CallExhausted ==
    /\ clientpc = "call"
    /\ ~call.returned
    /\ call.attempt > max_attempts
    /\ call' = AfterLoop(call)
    /\ UNCHANGED <<sideVars, max_attempts, clientpc, llm_ret, resps, failed_facts, logged,
                   orchVars>>

\* call_llm after _call returned
CallLlmFinish ==
    /\ clientpc = "call"
    /\ call.returned
    /\ clientpc' = "done"
    /\ llm_ret' = CallLlmReturn(call.ret)
    /\ failed_facts' = IF call.ret = None
                       THEN [failed_facts EXCEPT ![1] = @ + 1]
                       ELSE failed_facts
    /\ UNCHANGED <<sideVars, max_attempts, call, resps, logged, orchVars>>

InitCall ==
    /\ \E m \in 1..MaxAttempts : ClientInit(m)
    /\ SideIdle
    /\ failed_facts = [q \in Queries |-> 0]
    /\ logged = {1}
    /\ OrchInit(Missing)

NextCall ==
    \/ \E resp \in Responses : CallRound(resp)
    \/ CallExhausted
    \/ CallLlmFinish

SpecCall == InitCall /\ [][NextCall]_vars

\* every endpoint call carries timeout=self.timeout and every sleep is one
\* second, so a call_llm that can take a step does take it
SpecCallLive == SpecCall /\ WF_vars(NextCall)

\* --------------------------------------------- Spec: the orchestrator, main
Alive == mainpc # "idle"

\* max_workers=min(args.max_threads, len(remaining))
PoolSize(t, rem) == IF t < Cardinality(rem) THEN t ELSE Cardinality(rem)

\* the i-th smallest id of a set: remaining is in the order of queries
RECURSIVE Nth(_, _)
Nth(S, i) ==
    LET m == CHOOSE x \in S : \A y \in S : x <= y
    IN IF i = 1 THEN m ELSE Nth(S \ {m}, i - 1)

\* mutant: every submitted task is started at once
FirstTasks_All(t, rem) == rem

\* the tasks the pool threads take at once: the first PoolSize submitted
FirstTasks(t, rem) == {Nth(rem, i) : i \in 1..PoolSize(t, rem)}

\* the task a thread takes from the FIFO work queue when it is free
NextQueued(ws) ==
    LET queued == {p \in Queries : ws[p] = "queued"}
    IN IF queued = {} THEN {} ELSE {Nth(queued, 1)}

\* a process starts with --max_threads t: evaluate.py lines 108-141
\* (read_checkpoint, remaining, one future per remaining id) or, with nothing
\* remaining, on to the summary; an exception out of read_checkpoint ends main
StartRun(t) ==
    /\ mainpc = "idle"
    /\ run < MaxRuns
    /\ run' = run + 1
    /\ predictions' = read_checkpoint(file)
    /\ remaining' = IF read_checkpoint_raises(file) THEN {}
                    ELSE Remaining(predictions')
    /\ max_workers' = PoolSize(t, remaining')
    /\ wstate' = [q \in Queries |-> IF q \in FirstTasks(t, remaining') THEN "running"
                                   ELSE IF q \in remaining' THEN "queued"
                                   ELSE "none"]
    /\ wres' = [q \in Queries |-> NoResult]
    /\ mainpc' = IF read_checkpoint_raises(file) THEN "dead"
                 ELSE IF remaining' = {} THEN "summary" ELSE "loop"
    /\ cur' = 0
    /\ writes' = 0
    /\ UNCHANGED <<sideVars, clientVars, logged, failed_facts, file, outputs, everStored,
                   prevDone, killed>>

\* what call_llm(fact) can hand to llm_worker: for every behaviour of the
\* endpoint over the max_attempts rounds of the client main builds, the second
\* component call_llm returns, and whether every round failed in transport
WorkerResults ==
    { [ret |-> CallLlmReturn(cs.ret).response, netfail |-> cs.received = 0] :
        cs \in { RunCall(NewCall, scen, DefaultMaxAttempts) :
                    scen \in [1..DefaultMaxAttempts -> OrchResponses] } }

\* mutant: the worker stores the entry in the checkpoint mapping itself
WorkerFinish_WritesCheckpoint(q, res) ==
    /\ Alive
    /\ wstate[q] = "running"
    /\ wres' = [wres EXCEPT ![q] = res]
    /\ predictions' = IF res.ret = None THEN Put(predictions, q, NullSentinel)
                      ELSE predictions
    /\ failed_facts' = IF res.ret = None /\ q \in logged
                       THEN [failed_facts EXCEPT ![q] = @ + 1]
                       ELSE failed_facts
    /\ wstate' = [p \in Queries |-> IF p = q THEN "done"
                                   ELSE IF p \in NextQueued(wstate) THEN "running"
                                   ELSE wstate[p]]
    /\ UNCHANGED <<sideVars, clientVars, logged, file, remaining, max_workers, mainpc, cur,
                   outputs, run, everStored, prevDone, killed, writes>>

\* llm_worker(q) in mode "fact": call_llm(fact) ends with res, the
\* failure-log line of a terminal failure included; the thread then takes the
\* next task of the work queue
WorkerFinish(q, res) ==
    /\ Alive
    /\ wstate[q] = "running"
    /\ wres' = [wres EXCEPT ![q] = res]
    /\ failed_facts' = IF res.ret = None /\ q \in logged
                       THEN [failed_facts EXCEPT ![q] = @ + 1]
                       ELSE failed_facts
    /\ wstate' = [p \in Queries |-> IF p = q THEN "done"
                                   ELSE IF p \in NextQueued(wstate) THEN "running"
                                   ELSE wstate[p]]
    /\ UNCHANGED <<sideVars, clientVars, logged, file, predictions, remaining, max_workers, mainpc, cur,
                   outputs, run, everStored, prevDone, killed, writes>>

\* resp_json['answer'].lower() succeeds: the value is a dict, has the key,
\* and the answer is a str
AnswerReadable(v) == v.kind = "obj" /\ "answer" \in v.keys /\ v.answer # "1"

\* mutant: a terminal failure is stored as an 'idk' judgment
EntryFor_Idk(v) ==
    IF v = None THEN [kind |-> "rec", answer |-> "idk", reasoning |-> ""]
    ELSE [kind |-> "rec", answer |-> Lower(v.answer),
          reasoning |-> IF "reasoning" \in v.keys THEN v.reasoning ELSE ""]

\* the entry main stores for the result of a worker (lines 145-169)
EntryFor(v) ==
    IF v = None THEN NullSentinel
    ELSE Judgment(Lower(v.answer), IF "reasoning" \in v.keys THEN v.reasoning ELSE "")

\* mutant: the None branch continues without rewriting the checkpoint
HandleResult_NoWriteOnNone(q) ==
    /\ mainpc = "loop"
    /\ wstate[q] = "done"
    /\ wstate' = [wstate EXCEPT ![q] = "handled"]
    /\ cur' = q
    /\ IF wres[q].ret = None \/ AnswerReadable(wres[q].ret)
       THEN /\ predictions' = Put(predictions, q, EntryFor(wres[q].ret))
            /\ mainpc' = IF wres[q].ret = None THEN "loop" ELSE "w_open"
       ELSE /\ mainpc' = "dead"
            /\ UNCHANGED predictions
    /\ UNCHANGED <<sideVars, clientVars, logged, failed_facts, file, remaining, max_workers, wres, outputs,
                   run, everStored, prevDone, killed, writes>>

\* mutant: a None result is skipped, nothing is stored for the id
HandleResult_DropsNone(q) ==
    /\ mainpc = "loop"
    /\ wstate[q] = "done"
    /\ wstate' = [wstate EXCEPT ![q] = "handled"]
    /\ IF wres[q].ret = None
       THEN /\ mainpc' = "loop"
            /\ UNCHANGED <<predictions, cur>>
       ELSE IF AnswerReadable(wres[q].ret)
       THEN /\ predictions' = Put(predictions, q, EntryFor(wres[q].ret))
            /\ mainpc' = "w_open"
            /\ cur' = q
       ELSE /\ mainpc' = "dead"
            /\ cur' = q
            /\ UNCHANGED predictions
    /\ UNCHANGED <<sideVars, clientVars, logged, failed_facts, file, remaining, max_workers, wres, outputs,
                   run, everStored, prevDone, killed, writes>>

\* one iteration of the as_completed loop up to the checkpoint write:
\* lines 143-146 for a None result, lines 143-169 otherwise
HandleResult(q) ==
    /\ mainpc = "loop"
    /\ wstate[q] = "done"
    /\ wstate' = [wstate EXCEPT ![q] = "handled"]
    /\ cur' = q
    /\ IF wres[q].ret = None \/ AnswerReadable(wres[q].ret)
       THEN /\ predictions' = Put(predictions, q, EntryFor(wres[q].ret))
            /\ mainpc' = "w_open"
       ELSE /\ mainpc' = "dead"        \* KeyError, TypeError, AttributeError
            /\ UNCHANGED predictions
    /\ UNCHANGED <<sideVars, clientVars, logged, failed_facts, file, remaining, max_workers, wres, outputs,
                   run, everStored, prevDone, killed, writes>>

\* open(args.checkpoint, 'w'): the file is truncated
WriteOpen ==
    /\ mainpc = "w_open"
    /\ file' = Truncated
    /\ mainpc' = "w_dump"
    /\ UNCHANGED <<sideVars, clientVars, logged, failed_facts, predictions, remaining, max_workers, wstate,
                   wres, cur, outputs, run, everStored, prevDone,
                   killed, writes>>

\* json.dump in progress: a first part of the text has reached the disk
WriteFlush ==
    /\ mainpc = "w_dump"
    /\ file.state = "empty"
    /\ file' = Partial
    /\ UNCHANGED <<sideVars, clientVars, logged, failed_facts, predictions, remaining, max_workers, wstate,
                   wres, mainpc, cur, outputs, run, everStored,
                   prevDone, killed, writes>>

\* the with block ends: the whole mapping is in the file; then `continue`
\* after a None result, the output-log append otherwise
WriteClose ==
    /\ mainpc = "w_dump"
    /\ file' = Full(predictions)
    /\ mainpc' = IF predictions[cur] = NullSentinel THEN "loop" ELSE "outlog"
    /\ cur' = IF predictions[cur] = NullSentinel THEN 0 ELSE cur
    /\ everStored' = everStored \cup DOMAIN predictions
    /\ writes' = writes + 1
    /\ UNCHANGED <<sideVars, clientVars, logged, failed_facts, predictions, remaining, max_workers, wstate,
                   wres, outputs, run, prevDone, killed>>

\* lines 172-176: one line appended to the output log
AppendOutput ==
    /\ mainpc = "outlog"
    /\ outputs' = IF cur \in logged
                  THEN [outputs EXCEPT ![cur] = @ + 1]
                  ELSE outputs
    /\ mainpc' = "loop"
    /\ cur' = 0
    /\ UNCHANGED <<sideVars, clientVars, logged, failed_facts, file, predictions, remaining, max_workers,
                   wstate, wres, run, everStored, prevDone,
                   killed, writes>>

\* every future was handled: executor.shutdown()
LoopExit ==
    /\ mainpc = "loop"
    /\ \A q \in remaining : wstate[q] = "handled"
    /\ mainpc' = "summary"
    /\ UNCHANGED <<sideVars, clientVars, logged, failed_facts, file, predictions, remaining, max_workers,
                   wstate, wres, cur, outputs, run, everStored,
                   prevDone, killed, writes>>

\* the state no process leaves behind in memory
ProcessGone(done, wasKilled) ==
    /\ mainpc' = "idle"
    /\ predictions' = EmptyMap
    /\ max_workers' = 0
    /\ wstate' = [q \in Queries |-> "none"]
    /\ wres' = [q \in Queries |-> NoResult]
    /\ cur' = 0
    /\ prevDone' = done
    /\ killed' = wasKilled
    /\ UNCHANGED <<sideVars, clientVars, logged, failed_facts, file, remaining, outputs, run,
                   everStored, writes>>

\* lines 179-239: predictions[qid] for every query, the metrics, the end
Summary ==
    /\ mainpc = "summary"
    /\ IF Queries \subseteq DOMAIN predictions
       THEN ProcessGone(TRUE, FALSE)
       ELSE /\ mainpc' = "dead"        \* KeyError
            /\ UNCHANGED <<sideVars, clientVars, logged, failed_facts, file, predictions, remaining, max_workers,
                           wstate, wres, cur, outputs, run, everStored,
                           prevDone, killed, writes>>

\* main raised: the interpreter exits once the pool threads have drained
\* the work queue
ProcessExit ==
    /\ mainpc = "dead"
    /\ \A q \in Queries : wstate[q] \notin {"queued", "running"}
    /\ ProcessGone(FALSE, FALSE)

\* an external interrupt stops the process, at any point
Kill ==
    /\ Alive
    /\ ProcessGone(FALSE, TRUE)

\* the two logs are only ever appended to and never read by the program, so
\* nothing main or a worker does depends on them: Spec leaves their lines
\* uncounted, SpecLog counts the lines of one fact, any of them
\* the failure log earlier runs left next to checkpoint file f: one line for
\* every fact that has the null sentinel
LogFor(f, lg) ==
    [q \in Queries |-> IF q \in lg /\ q \in DOMAIN f.content
                                   /\ f.content[q] = NullSentinel
                       THEN 1 ELSE 0]

Init ==
    /\ ClientInit(DefaultMaxAttempts)
    /\ SideIdle
    /\ logged = {}
    /\ \E f \in InitFiles : OrchInit(f) /\ failed_facts = LogFor(f, logged)

InitLog ==
    /\ ClientInit(DefaultMaxAttempts)
    /\ SideIdle
    /\ \E q \in Queries : logged = {q}
    /\ \E f \in InitFiles : OrchInit(f) /\ failed_facts = LogFor(f, logged)

Next ==
    \/ \E t \in 1..MaxThreads : StartRun(t)
    \/ \E q \in Queries : \E res \in WorkerResults : WorkerFinish(q, res)
    \/ \E q \in Queries : HandleResult(q)
    \/ WriteOpen
    \/ WriteFlush
    \/ WriteClose
    \/ AppendOutput
    \/ LoopExit
    \/ Summary
    \/ ProcessExit
    \/ Kill

Spec == Init /\ [][Next]_vars

SpecLog == InitLog /\ [][Next]_vars

\* ------------------------------- SpecLoad: read_checkpoint on any file found
Entries == {NullSentinel, Judgment("yes", "r"), Judgment("no", "r")}
StoredMaps == UNION {[D -> Entries] : D \in SUBSET Ids}

\* what the checkpoint path can hold when a process starts
LoadFiles == {Missing, Truncated, Partial, Undecodable}
                 \cup {Full(m) : m \in StoredMaps}

InitLoad ==
    /\ ClientInit(DefaultMaxAttempts)
    /\ SideIdle
    /\ logged = {}
    /\ \E f \in LoadFiles : OrchInit(f) /\ failed_facts = LogFor(f, logged)

NextLoad == \E t \in 1..MaxThreads : StartRun(t)

SpecLoad == InitLoad /\ [][NextLoad]_vars

\* ------------------- SpecPrompt: call_llm builds its messages, per thread
\* the texts call_llm translates, in the order of the calls: template_sys,
\* template_user and, with use_few_shots, the two assistant examples
LastStage == IF cfg.use_few_shots THEN 4 ELSE 2

\* the thread goes on to the next text, or to _build_messages
Advance(b, value) ==
    [b EXCEPT !.texts[b.stage] = value,
              !.src = b.cur, !.out = value,
              !.stage = IF b.stage = LastStage THEN 0 ELSE b.stage + 1,
              !.pc = IF b.stage = LastStage THEN "built" ELSE "lookup"]

\* call_llm up to the first _translate_cached: the templates, stripped of
\* the idk option unless allow_idk; without a translator nothing is translated
BuildStart(t) ==
    /\ builder[t].pc = "idle"
    /\ LET strip(x) == IF cfg.allow_idk THEN x ELSE _strip_idk(x)
           texts == <<strip(template_sys(cfg.mode)), strip(template_user(cfg.mode)),
                      Ex1Assistant, Ex2Assistant>>
       IN builder' = [builder EXCEPT ![t] =
                         [IdleBuilder EXCEPT !.texts = texts,
                             !.stage = IF cfg.translator = "none" THEN 0 ELSE 1,
                             !.pc = IF cfg.translator = "none" THEN "built"
                                    ELSE "lookup"]]
    /\ UNCHANGED <<cfg, cache, retr, ctx, clientVars, failed_facts, logged, orchVars>>

\* _translate_cached, lines 33-37: a hit returns the cached value
CacheLookup(t) ==
    /\ builder[t].pc = "lookup"
    /\ LET b == builder[t]
           text == b.texts[b.stage]
       IN builder' = [builder EXCEPT ![t] =
               IF text \in DOMAIN cache
               THEN Advance([b EXCEPT !.cur = text], cache[text])
               ELSE [b EXCEPT !.cur = text, !.pc = "translate"]]
    /\ UNCHANGED <<cfg, cache, retr, ctx, clientVars, failed_facts, logged, orchVars>>

\* lines 39-57: mask, translate (ok) or fall back to the text (exception)
TranslateCall(t, ok) ==
    /\ builder[t].pc = "translate"
    /\ builder' = [builder EXCEPT
                      ![t].tmp = Translated(cfg.translator, builder[t].cur, ok),
                      ![t].pc = "store"]
    /\ UNCHANGED <<cfg, cache, retr, ctx, clientVars, failed_facts, logged, orchVars>>

\* lines 59-60: the value is stored in the cache and returned
CacheStore(t) ==
    /\ builder[t].pc = "store"
    /\ LET b == builder[t]
       IN /\ cache' = [k \in DOMAIN cache \cup {b.cur} |->
                          IF k = b.cur THEN b.tmp ELSE cache[k]]
          /\ builder' = [builder EXCEPT ![t] = Advance([b EXCEPT !.tmp = NoText], b.tmp)]
    /\ UNCHANGED <<cfg, retr, ctx, clientVars, failed_facts, logged, orchVars>>

InitPrompt ==
    /\ ClientInit(DefaultMaxAttempts)
    /\ failed_facts = [q \in Queries |-> 0]
    /\ logged = {}
    /\ OrchInit(Missing)
    /\ cfg \in [mode : Modes, allow_idk : BOOLEAN,
                 translator : Translators \cup {"none"}, use_few_shots : BOOLEAN]
    /\ cache = EmptyCache
    /\ builder = [t \in Threads |-> IdleBuilder]
    /\ retr = IdleRetriever
    /\ ctx = IdleContext

NextPrompt ==
    \/ \E t \in Threads : BuildStart(t)
    \/ \E t \in Threads : CacheLookup(t)
    \/ \E t \in Threads : \E ok \in BOOLEAN : TranslateCall(t, ok)
    \/ \E t \in Threads : CacheStore(t)

SpecPrompt == InitPrompt /\ [][NextPrompt]_vars

\* -------------------------- SpecRetrieve: one call of retrieve on a retriever
\* retrieve(fact, article_text, top_k), lines 67-78
Retrieve ==
    /\ retr.pc = "ready"
    /\ \E o \in RetrieveOutcomes(retr) :
          retr' = [retr EXCEPT !.pc = IF o.out.exc = "none" THEN "returned"
                                     ELSE "raised",
                               !.exc = o.out.exc, !.result = o.out.value,
                               !.encoder_calls = o.calls]
    /\ UNCHANGED <<promptVars, ctx, clientVars, failed_facts, logged, orchVars>>

InitRetrieve ==
    /\ ClientInit(DefaultMaxAttempts)
    /\ failed_facts = [q \in Queries |-> 0]
    /\ logged = {}
    /\ OrchInit(Missing)
    /\ cfg = [mode |-> "fact", allow_idk |-> TRUE, translator |-> "none",
              use_few_shots |-> FALSE]
    /\ cache = EmptyCache
    /\ builder = [t \in Threads |-> IdleBuilder]
    /\ ctx = IdleContext
    /\ \E pooling \in {"mean", "cls"}, splitter \in {"sentence", "paragraph"},
          doc \in Documents, top_k \in 1..MaxTopK :
          retr = [IdleRetriever EXCEPT !.pc = "ready", !.pooling = pooling,
                     !.splitter = splitter, !.doc = doc, !.top_k = top_k]

NextRetrieve == Retrieve

SpecRetrieve == InitRetrieve /\ [][NextRetrieve]_vars

\* ------------------ SpecContext: one item of a run in a mode with contexts
\* main, lines 88-99: with --use_fragment_retriever the RelevantRetriever is
\* constructed without its required maxlen and batch_size
Startup ==
    /\ ctx.pc = "startup"
    /\ ctx' = IF ctx.use_fragment_retriever
              THEN [ctx EXCEPT !.pc = "dead", !.exc = "TypeError"]
              ELSE [ctx EXCEPT !.pc = "running"]
    /\ UNCHANGED <<promptVars, retr, clientVars, failed_facts, logged, orchVars>>

\* llm_worker, lines 119-137, up to the call of call_llm
LlmWorker ==
    /\ ctx.pc = "running"
    /\ LET present == resolve_context(ctx.listed, ctx.corpus)
           r == [IdleRetriever EXCEPT !.doc = [i \in 1..Len(present) |-> 1]]
           got == CHOOSE o \in RetrieveOutcomes(r) : TRUE
       IN ctx' = IF ctx.mode = "relevant" /\ ctx.use_fragment_retriever
                 THEN IF got.out.exc = "none"
                      THEN [ctx EXCEPT !.pc = "sent", !.contexts = got.out.value]
                      ELSE [ctx EXCEPT !.pc = "failed", !.exc = got.out.exc]
                 ELSE [ctx EXCEPT !.pc = "sent", !.contexts = present]
    /\ UNCHANGED <<promptVars, retr, clientVars, failed_facts, logged, orchVars>>

InitContext ==
    /\ ClientInit(DefaultMaxAttempts)
    /\ failed_facts = [q \in Queries |-> 0]
    /\ logged = {}
    /\ OrchInit(Missing)
    /\ cfg = [mode |-> "fact", allow_idk |-> TRUE, translator |-> "none",
              use_few_shots |-> FALSE]
    /\ cache = EmptyCache
    /\ builder = [t \in Threads |-> IdleBuilder]
    /\ retr = IdleRetriever
    /\ \E mode \in ContextModes, flag \in BOOLEAN, listed \in Listings,
          corpus \in SUBSET ArticleIds :
          ctx = [IdleContext EXCEPT !.pc = "startup", !.mode = mode,
                    !.use_fragment_retriever = flag, !.listed = listed,
                    !.corpus = corpus]

NextContext ==
    \/ Startup
    \/ LlmWorker

SpecContext == InitContext /\ [][NextContext]_vars

\* =================================================================== claims
HasBothKeys(v) == v.kind = "obj" /\ {"answer", "reasoning"} \subseteq v.keys

\* the text of the response is a JSON object with both keys
ValidJudgmentText(raw) == raw \in Raws /\ HasBothKeys(JsonLoads(raw))

\* the response contains such an object: bare, in prose, or fenced
ContainsJudgment(raw) ==
    \E i \in 1..Len(raw) : \E j \in i..Len(raw) :
        HasBothKeys(JsonLoads(SubSeq(raw, i, j)))

\* the response is text that is not JSON and holds no judgment object
Malformed(raw) ==
    raw \in Raws /\ JsonLoads(raw).kind = "err" /\ ~ContainsJudgment(raw)

\* the response fails the JSON/key contract
FailsContract(raw) == raw \in Raws /\ ~ContainsJudgment(raw)

\* a process is being started by this step
RunStarts == mainpc = "idle" /\ mainpc' # "idle"

\* main is inside the checkpoint write of the iteration for q
Writing(q) == cur = q /\ mainpc \in {"w_open", "w_dump"}

\* C1 (as claimed): At-most-once across runs: a run submits an id to a worker
\* only if the checkpoint it loaded has no key for it, and an id under which
\* some completed checkpoint write of an earlier run stored a value is
\* submitted by no later run.
C1_AtMostOnce ==
    [][RunStarts =>
          \A q \in Queries :
              wstate'[q] # "none" =>
                  q \notin DOMAIN read_checkpoint(file) /\ q \notin everStored]_vars

\* C2: Idempotence: a run started after a run that reached its end has an
\* empty remaining set and invokes the endpoint for no id.
C2_Idempotent ==
    (prevDone /\ Alive) =>
        remaining = {} /\ \A q \in Queries : wstate[q] = "none"

\* a second run, after a first one that judged an item, is at its summary
C2_Witness ==
    /\ prevDone /\ run = 2 /\ mainpc = "summary"
    /\ \E q \in Queries : q \in DOMAIN predictions /\ predictions[q].kind = "rec"

\* C3 (as claimed): Crash-resume: a run started after a process that was
\* killed when N of its M checkpoint writes had completed processes exactly
\* M - N ids, the ids absent from the checkpoint.
C3_CrashResume ==
    [][(RunStarts /\ killed) =>
          /\ Cardinality(remaining') = Cardinality(remaining) - writes
          /\ remaining' = {q \in Queries : q \notin DOMAIN read_checkpoint(file)}]_vars

\* C4: Durability per completion: whenever main is between two loop
\* iterations, the checkpoint file is the whole in-memory mapping and has an
\* entry for every item whose completion was handled, so a kill there loses
\* no handled item.
C4_DurablePerCompletion ==
    mainpc = "loop" =>
        \A q \in Queries :
            wstate[q] = "handled" =>
                /\ file.state = "full"
                /\ file.content = predictions
                /\ q \in DOMAIN read_checkpoint(file)

\* between two completions: one item handled and on disk, another in flight
C4_Witness ==
    /\ mainpc = "loop"
    /\ \E q \in Queries : wstate[q] = "handled" /\ q \in DOMAIN file.content
    /\ \E q \in Queries : wstate[q] \in {"running", "done"}

\* C5 (as claimed): Safe overwrite: at every instant the checkpoint file is a
\* complete mapping, and it holds every entry a completed write has stored.
C5_SafeOverwrite ==
    /\ file.state \in {"missing", "full"}
    /\ everStored \subseteq DOMAIN file.content

\* C6 (as claimed): JSON-repair convergence: after malformed text on attempts
\* 1..k and a valid object with both keys on attempt k+1, _call makes no
\* further endpoint call (k+1 calls in all) and what it returns is that object.
C6_RepairConvergence ==
    \A k \in 0..(max_attempts - 1) :
        ( /\ Len(resps) >= k + 1
          /\ \A i \in 1..k : Malformed(resps[i])
          /\ ValidJudgmentText(resps[k + 1]) )
        => ( /\ call.ncalls = k + 1
             /\ call.returned => call.ret = JsonLoads(resps[k + 1]) )

\* C7 (as claimed): Acceptance contract: whatever _call returns, if it is not
\* None, is a JSON object with the keys 'answer' and 'reasoning'; the same
\* holds of the judgment call_llm returns.
C7_AcceptanceContract ==
    /\ (call.returned /\ call.ret # None) => HasBothKeys(call.ret)
    /\ (clientpc = "done" /\ llm_ret.response # None) => HasBothKeys(llm_ret.response)

\* C8 (as claimed): Exhaustion: when every response of the endpoint fails the
\* contract, call_llm ends after exactly max_attempts endpoint calls with
\* (None, None) and one line in the failure log.
C8_Exhaustion ==
    ( /\ clientpc = "done"
      /\ \A i \in 1..Len(resps) : FailsContract(resps[i]) )
    => ( /\ call.ncalls = max_attempts
         /\ llm_ret = [prompt |-> "None", response |-> None]
         /\ failed_facts[1] = 1 )

RoundWith(resp) == resps' = Append(resps, resp)

\* the round taken by this step got a response and did not return it
RejectedRound ==
    /\ \E resp \in Raws : RoundWith(resp)
    /\ ~call'.returned

\* C11: Attempt budget: every round of _call, whether it ends in a transport
\* failure or in a rejected response, uses up exactly one attempt, so for every
\* interleaving of the two the endpoint is called at most max_attempts times;
\* and _call terminates (call_llm returns).
C11_AttemptBudget ==
    /\ [](/\ call.ncalls = Len(resps)
          /\ call.ncalls <= max_attempts
          /\ ~call.returned => call.attempt = call.ncalls + 1
          /\ (call.returned /\ call.ncalls < max_attempts) =>
                call.attempt = call.ncalls)
    /\ <>(clientpc = "done")

\* the budget was used up by transport failures and rejected responses mixed
C11_Witness ==
    /\ max_attempts = MaxAttempts
    /\ clientpc = "done"
    /\ call.ncalls = max_attempts
    /\ \E i \in 1..Len(resps) : resps[i] = TransportError
    /\ \E i \in 1..Len(resps) : resps[i] = Garbage

\* C12: Transport failure leaves the history unchanged: a round that ends in a
\* transport error leaves the message sequence as it was, so the next attempt
\* sends exactly the sequence the failed attempt sent.
C12_TransportKeepsMessages ==
    [][RoundWith(TransportError) => call'.messages = call.messages]_vars

\* a transport error came after a rejected response, another attempt is due,
\* and the history still is the one with the single corrective message
C12_Witness ==
    /\ Len(resps) = 2 /\ resps[1] = Garbage /\ resps[2] = TransportError
    /\ ~call.returned /\ call.attempt <= max_attempts
    /\ call.messages = Append(InitialMessages, "corrective")

\* C13 (as claimed): Repair history: after a round whose response is rejected
\* the message sequence is strictly longer, the added messages being the
\* model's own output and then the corrective system message.
C13_RepairHistory ==
    [][RejectedRound =>
          call'.messages = call.messages \o <<"assistant", "corrective">>]_vars

\* C14 (as claimed): Canonical answer invariant: every judgment record of the
\* checkpoint mapping, in memory and in the file, has an answer that is one of
\* 'yes', 'no', 'idk'.
C14_CanonicalAnswer ==
    /\ \A i \in DOMAIN predictions :
          predictions[i].kind = "rec" => predictions[i].answer \in {"yes", "no", "idk"}
    /\ \A i \in DOMAIN file.content :
          file.content[i].kind = "rec" => file.content[i].answer \in {"yes", "no", "idk"}

\* C15 (as claimed): Failure containment: no failure of an item makes main
\* raise; main goes on to the other items and to the summary.
C15_FailureContainment == mainpc # "dead"

\* the tasks in flight against the endpoint
Running == {q \in Queries : wstate[q] = "running"}

\* this step is the end of a worker task
WorkerStep == \E q \in Queries : wstate[q] = "running" /\ wstate'[q] = "done"

\* C16: Single-writer checkpoint: while a process runs, a step of a worker
\* task changes neither the in-memory mapping nor the file; the mapping
\* changes only in main's loop, under the id of a result a worker has handed
\* back, and the file changes only inside main's write of that iteration, so
\* there is one writer and no two writes overlap.
C16_SingleWriter ==
    [][(Alive /\ Alive') =>
          /\ (WorkerStep \/ wres' # wres) =>
                file' = file /\ predictions' = predictions
          /\ predictions' # predictions =>
                /\ mainpc = "loop" /\ wstate[cur'] = "done"
                /\ \A i \in DOMAIN predictions :
                      i # cur' => i \in DOMAIN predictions'
                                   /\ predictions'[i] = predictions[i]
          /\ file' # file =>
                mainpc \in {"w_open", "w_dump"} /\ wstate[cur] = "handled"]_vars

\* main is inside a checkpoint write while a worker task is running
C16_Witness ==
    /\ mainpc = "w_dump" /\ file.state = "partial"
    /\ \E q \in Queries : wstate[q] = "running"

\* C17: Bounded in-flight work: the pool has at most max_threads and at most
\* len(remaining) workers (at least one when there is work), exactly the
\* remaining ids have a task, and the tasks in flight never outnumber the
\* workers of the pool.
C17_BoundedInFlight ==
    Alive =>
        /\ max_workers <= MaxThreads
        /\ max_workers <= Cardinality(remaining)
        /\ remaining # {} => max_workers >= 1
        /\ {q \in Queries : wstate[q] # "none"} = remaining
        /\ Cardinality(Running) <= max_workers

\* fewer workers than remaining items: the pool is full and a task waits
C17_Witness ==
    /\ Alive
    /\ max_workers < Cardinality(remaining)
    /\ Cardinality(Running) = max_workers
    /\ \E q \in Queries : wstate[q] = "queued"

\* C18 (as claimed): Checkpoint load tolerance: a starting process gets the
\* stored mapping from a file that holds one and the empty mapping from any
\* other file, read_checkpoint does not raise, and the run proceeds.
C18_LoadTolerance ==
    [][RunStarts =>
          /\ mainpc' \in {"loop", "summary"}
          /\ predictions' = IF file.state = "full" THEN file.content
                            ELSE EmptyMap]_vars

\* C19 (as claimed): Output log completeness: once no process runs, an item
\* with a judgment record in the checkpoint file has exactly one line in the
\* output log, and an item with the null sentinel has none.
C19_OutputLogComplete ==
    \A q \in logged :
        (mainpc = "idle" /\ file.state = "full" /\ q \in DOMAIN file.content) =>
            outputs[q] = IF file.content[q].kind = "rec" THEN 1 ELSE 0

\* C20 (as claimed): Failure log, one entry per failed fact: the failure log
\* never holds two lines for a fact, and once no process runs it holds one
\* line for a fact with the null sentinel in the checkpoint file and none
\* for a fact with a judgment record.
C20_OneFailureEntry ==
    \A q \in logged :
        /\ failed_facts[q] <= 1
        /\ (mainpc = "idle" /\ file.state = "full" /\ q \in DOMAIN file.content) =>
              failed_facts[q] = IF file.content[q].kind = "rec" THEN 0 ELSE 1

\* the number of rounds of this _call in which a response was received and
\* not returned: every response but one accepted inside the loop
RejectedRounds ==
    LET got == {i \in 1..Len(resps) : resps[i] # TransportError}
        accepted == IF call.returned /\ call.attempt <= max_attempts
                    THEN {Len(resps)} ELSE {}
    IN Cardinality(got \ accepted)

\* C27 (as claimed): Correction on every rejected response: every round that
\* received a response and did not accept it appended exactly one corrective
\* message, so the message list is its initial length plus the number of
\* rejected-response rounds.
C27_CorrectionPerRejection ==
    Len(call.messages) = Len(InitialMessages) + RejectedRounds

\* C28: Summary precondition: whenever main is at the summary, every query id
\* of the work set is a key of the in-memory checkpoint mapping, so
\* predictions[qid] does not fail.
C28_SummaryPrecondition ==
    mainpc = "summary" => Queries \subseteq DOMAIN predictions

\* the summary is reached by a run that stored a sentinel and a record
C28_Witness ==
    /\ mainpc = "summary"
    /\ \E q \in Queries : wstate[q] = "handled" /\ predictions[q] = NullSentinel
    /\ \E q \in Queries : wstate[q] = "handled" /\ predictions[q].kind = "rec"

\* C29: Checkpoint entries are write-once within a run: a step of a running
\* process keeps every entry of the in-memory mapping (ids outside the work
\* set included), assigns only an id that had no entry, and a completed
\* checkpoint write stores exactly that mapping; a complete file is always a
\* part of the mapping, so every write extends the one before it.
C29_WriteOnce ==
    /\ [](Alive /\ file.state = "full" =>
             \A i \in DOMAIN file.content :
                 i \in DOMAIN predictions /\ predictions[i] = file.content[i])
    /\ [][(Alive /\ Alive') =>
            /\ \A i \in DOMAIN predictions :
                  i \in DOMAIN predictions' /\ predictions'[i] = predictions[i]
            /\ (file' # file /\ file'.state = "full") =>
                  file'.content = predictions]_vars

\* a run that loaded entries, one of an id outside its work set, has
\* completed a write that kept them and added the entry of id 2
C29_Witness ==
    /\ Alive /\ writes = 1 /\ file = Full(predictions)
    /\ DOMAIN file.content = {OtherId, 1, 2}
    /\ file.content[OtherId] = Judgment("no", "r")
    /\ file.content[1] = NullSentinel

\* the run in progress has appended the output-log line of item q
LineWritten(q) ==
    Alive /\ wstate[q] = "handled" /\ wres[q].ret # None /\ cur # q

\* C30 (as claimed): Checkpoint before audit line: at every instant an item
\* whose output-log line this run has written has a judgment record in the
\* checkpoint file.
C30_CheckpointBeforeLine ==
    \A q \in Queries :
        LineWritten(q) =>
            /\ file.state = "full"
            /\ q \in DOMAIN file.content
            /\ file.content[q].kind = "rec"

\* the phrases that refer to the idk / uncertain option, translated or not
IdkPhrases == {"unc", "oiu", "oi", "yni", "UNC", "OIU", "OI", "YNI"}
MentionsIdk(text) == \E i \in 1..Len(text) : text[i] \in IdkPhrases

\* C21 (as claimed): idk-stripping: with allow_idk = False, in each mode the
\* system instruction and the user prompt call_llm has built contain no
\* reference to the idk / uncertain option.
C21_IdkStripped ==
    \A t \in Threads :
        (builder[t].pc = "built" /\ ~cfg.allow_idk) =>
            ~MentionsIdk(builder[t].texts[1]) /\ ~MentionsIdk(builder[t].texts[2])

\* the field names of a text, in their quote styles and in order
IsFieldName(t) == t \in {"sqA", "dqA", "sqR", "dqR"}
FieldNames(text) == SelectSeq(text, IsFieldName)

\* C22 (as claimed): Key masking round-trip: what _translate_cached returns
\* has the field names of its source text, each in the quote style of the
\* source, and with the identity translator it is the source text.
C22_MaskRoundTrip ==
    \A t \in Threads :
        LET b == builder[t]
        IN b.src # NoText =>
              /\ FieldNames(b.out) = FieldNames(b.src)
              /\ cfg.translator = "identity" => b.out = b.src

\* C23 (as claimed): Translation cache is write-once under concurrency: no
\* step removes a cache entry or changes its value.
C23_CacheWriteOnce ==
    [][\A k \in DOMAIN cache : k \in DOMAIN cache' /\ cache'[k] = cache[k]]_vars

RetrieveDone == retr.pc \in {"returned", "raised"}
Distinct(seq) == \A i, j \in 1..Len(seq) : i # j => seq[i] # seq[j]

\* C24 (as claimed): Retrieval result shape: retrieve returns at most top_k
\* fragments of the document, none repeated by position; for a document of
\* zero fragments it returns the empty sequence, without raising and without
\* calling the encoder.
C24_ResultShape ==
    RetrieveDone =>
        /\ retr.exc = "none"
        /\ Len(retr.result) <= retr.top_k
        /\ \A i \in 1..Len(retr.result) : retr.result[i] \in 1..Len(retr.doc)
        /\ Distinct(retr.result)
        /\ retr.doc = <<>> => retr.result = <<>> /\ retr.encoder_calls = 0

\* the positions of S by similarity, highest first, equal ones in document order
Best(S, sims) ==
    CHOOSE i \in S : \A j \in S : sims[i] > sims[j] \/ (sims[i] = sims[j] /\ i <= j)
RECURSIVE StableRanking(_, _, _)
StableRanking(S, sims, k) ==
    IF S = {} \/ k = 0 THEN <<>>
    ELSE <<Best(S, sims)>> \o StableRanking(S \ {Best(S, sims)}, sims, k - 1)

\* C25 (as claimed): Retrieval ranking: the fragments retrieve returns are in
\* order of similarity, highest first, fragments of equal similarity in their
\* document order, and they are the top_k of that order.
C25_StableRanking ==
    RetrieveDone =>
        /\ retr.exc = "none"
        /\ retr.result = StableRanking(1..Len(retr.doc), retr.doc, retr.top_k)

ItemOver == ctx.pc \in {"sent", "dead", "failed"}
InCorpus(aid) == aid \in ctx.corpus

\* C26 (as claimed): Corpus lookup miss: when the fact lists article ids that
\* are absent from the corpus, the item is still sent to the client, with the
\* contexts of the present ids in their listed order.
C26_LookupMiss ==
    (ItemOver /\ \E i \in 1..Len(ctx.listed) : ~InCorpus(ctx.listed[i])) =>
        /\ ctx.pc = "sent"
        /\ ctx.contexts = SelectSeq(ctx.listed, InCorpus)

====
